---------------------------- MODULE Spec2Model ----------------------------
(***************************************************************************)
(* Progress / streak / reward / backfill engine of daily-buddies.          *)
(*                                                                         *)
(* Instants are JavaScript epoch milliseconds.  A time zone is modelled by *)
(* its fixed offset east of UTC in milliseconds, which is what the Intl    *)
(* formatter contributes to the day arithmetic.  Calendar year/month/day   *)
(* are collapsed into the number of the day since the epoch.               *)
(***************************************************************************)
EXTENDS Integers, Sequences, FiniteSets, TLC

(***************************************************************************)
(* Program constants                                                       *)
(***************************************************************************)
DAY_MS == 86400000
HOUR_MS == 3600000
MINUTE_MS == 60000
SECOND_MS == 1000
EPOCH_WEEKDAY == 4
LOOKBACK == 60
NULL == -1

WEEK_DAYS == <<"SUN", "MON", "TUE", "WED", "THU", "FRI", "SAT">>

COMPLETED == "COMPLETED"
PENDING == "PENDING"
SKIPPED == "SKIPPED"
CompletionStatus == {PENDING, COMPLETED, SKIPPED}

DAILY == "DAILY"
WEEKLY == "WEEKLY"
MONTHLY == "MONTHLY"
YEARLY == "YEARLY"

APPROVED == "APPROVED"
REJECTED == "REJECTED"
TERMINATED == "TERMINATED"
PrivilegeRequestStatus == {PENDING, APPROVED, REJECTED, TERMINATED}

STREAK_CONFIG ==
  << [period |-> WEEKLY, threshold |-> 7, field |-> "weeklyStreakReward"],
     [period |-> MONTHLY, threshold |-> 31, field |-> "monthlyStreakReward"],
     [period |-> YEARLY, threshold |-> 365, field |-> "yearlyStreakReward"] >>

(***************************************************************************)
(* Bounds of the model                                                     *)
(***************************************************************************)
StartDay == 9
MaxHistory == 7
MaxLedger == 2
MaxPerDay == 61
\* the largest number of upserts after which a backfill is made to fail
MaxUpserts == 4
\* the largest number of fields a PATCH /family/streaks body carries
MaxFields == 2

\* times of day at which requests arrive: exact midnight, one millisecond
\* later, 01:00:00.000 and 20:00:00.500
TimeSlots == {0, 1, HOUR_MS, 20 * HOUR_MS + 500}

\* UTC and UTC+8
TimeZones == {0, 8 * HOUR_MS}

\* the instants at which requests arrive: all within one UTC day, the last
\* of them on the next local day of the zone east of UTC
RequestTimes == {StartDay * DAY_MS + s : s \in TimeSlots}

Child == "kid1"
Parent == "parent1"
Family == "fam1"
Tasks == {"t1", "t2"}

(***************************************************************************)
(* Day / time-zone normalizer                                              *)
(***************************************************************************)
Max(S) == CHOOSE x \in S : \A y \in S : y <= x

startOfDayUTC(date) == (date \div DAY_MS) * DAY_MS

\* Date.UTC(year, month, day, hour, minute, second, ms) with the calendar
\* date given as a day number
DateUTC(day, hour, minute, second, ms) ==
  day * DAY_MS + hour * HOUR_MS + minute * MINUTE_MS + second * SECOND_MS + ms

\* the formatter renders the wall clock of `date` in the zone down to the
\* second; milliseconds are not among the parts
getTimeParts(date, timeZone) ==
  LET local == date + timeZone
      ofDay == local % DAY_MS
  IN [ day    |-> local \div DAY_MS,
       hour   |-> ofDay \div HOUR_MS,
       minute |-> (ofDay % HOUR_MS) \div MINUTE_MS,
       second |-> (ofDay % MINUTE_MS) \div SECOND_MS ]

startOfDayInTimeZone(timeZone, date) ==
  LET parts == getTimeParts(date, timeZone)
      zonedMidnight == DateUTC(parts.day, 0, 0, 0, 0)
      currentInstantUtc == date
      zonedInstantUtc ==
        DateUTC(parts.day, parts.hour, parts.minute, parts.second, 0)
      offsetMs == zonedInstantUtc - currentInstantUtc
  IN zonedMidnight - offsetMs

dayBoundsForTimeZone(timeZone, date) ==
  LET start == startOfDayInTimeZone(timeZone, date)
  IN [start |-> start, end |-> start + 24 * 60 * 60 * 1000]

weekdayKeyForTimeZone(timeZone, date) ==
  WEEK_DAYS[((((date + timeZone) \div DAY_MS) + EPOCH_WEEKDAY) % 7) + 1]

dayKeyFromDate(date) ==
  WEEK_DAYS[(((date \div DAY_MS) + EPOCH_WEEKDAY) % 7) + 1]

\* daysOfWeek is stored normalised: a set of day keys, empty for JSON null
isActiveOnDay(value, dayKey) ==
  IF value = {} THEN TRUE ELSE dayKey \in value

isActiveToday(value, timeZone, date) ==
  isActiveOnDay(value, weekdayKeyForTimeZone(timeZone, date))

(***************************************************************************)
(* State                                                                   *)
(***************************************************************************)
VARIABLES
  now,              \* the system clock
  systemTimeZone,   \* zone the Intl formatter resolves for the service
  family,           \* Family row: the four streak reward amounts
  tasks,            \* Task rows: taskId -> [points, daysOfWeek, active]
  taskAssignment,   \* TaskAssignment rows of the child
  taskCompletion,   \* TaskCompletion rows
  streakRewardLog,  \* StreakRewardLog rows, in insertion order
  rewardRedemption, \* RewardRedemption rows, in insertion order
  missionReward,    \* MissionReward rows, in insertion order
  pointAdjustment,  \* PointAdjustment rows, in insertion order
  privilegeRequest, \* PrivilegeRequest rows, in insertion order
  teamMission,      \* the family's TeamMission row with its participants
  inflight,         \* maybeAwardStreakRewards calls in progress: their locals
  redeeming         \* redeem requests in progress: their locals

ledgers == << taskCompletion, streakRewardLog, rewardRedemption,
              missionReward, pointAdjustment, privilegeRequest >>

vars == << now, systemTimeZone, family, tasks, taskAssignment,
           taskCompletion, streakRewardLog, rewardRedemption, missionReward,
           pointAdjustment, privilegeRequest, teamMission, inflight,
           redeeming >>


\* the database as one value, so that a handler can thread it through the
\* service calls it makes
Db ==
  [ taskCompletion   |-> taskCompletion,
    streakRewardLog  |-> streakRewardLog,
    rewardRedemption |-> rewardRedemption,
    missionReward    |-> missionReward,
    pointAdjustment  |-> pointAdjustment,
    privilegeRequest |-> privilegeRequest ]

(***************************************************************************)
(* Storage helpers (Prisma)                                                *)
(***************************************************************************)
RECURSIVE SumSeq(_)
SumSeq(s) == IF s = <<>> THEN 0 ELSE Head(s) + SumSeq(Tail(s))

RECURSIVE SetToSeq(_)
SetToSeq(S) ==
  IF S = {} THEN <<>>
  ELSE LET x == CHOOSE y \in S : TRUE IN <<x>> \o SetToSeq(S \ {x})

SeqToSet(s) == {s[i] : i \in DOMAIN s}

\* aggregate({_sum}) over the selected column values: null (the empty
\* sequence) when no row matches, else the total wrapped in a sequence
aggregateSum(values) == IF values = <<>> THEN <<>> ELSE <<SumSeq(values)>>

\* the same aggregate over a table kept as a set of rows: each value of the
\* column counted as many times as rows hold it
RECURSIVE SumByValue(_, _, _)
SumByValue(rows, field, values) ==
  IF values = {} THEN 0
  ELSE LET v == CHOOSE x \in values : TRUE
       IN v * Cardinality({r \in rows : r[field] = v})
            + SumByValue(rows, field, values \ {v})

aggregateSumOfRows(rows, field) ==
  IF rows = {} THEN <<>>
  ELSE <<SumByValue(rows, field, {r[field] : r \in rows})>>

\* the ?? operator on an aggregate result
Coalesce(opt, default) == IF opt = <<>> THEN default ELSE opt[1]

Column(rows, field) == [i \in DOMAIN rows |-> rows[i][field]]

\* any n elements of S (all of S when it has fewer)
RECURSIVE TakeAny(_, _)
TakeAny(S, n) ==
  IF n = 0 \/ S = {} THEN {}
  ELSE LET x == CHOOSE y \in S : TRUE IN {x} \cup TakeAny(S \ {x}, n - 1)

\* findMany({ orderBy: { date: "desc" }, take: n }): the rows of the latest
\* date first, then those of the next date, until n rows are taken; the
\* order among rows of one date is the storage's choice
RECURSIVE TakeLatest(_, _)
TakeLatest(rows, n) ==
  IF n = 0 \/ rows = {} THEN {}
  ELSE LET latest == Max({r.date : r \in rows})
           group == {r \in rows : r.date = latest}
       IN IF Cardinality(group) >= n THEN TakeAny(group, n)
          ELSE group \cup TakeLatest(rows \ group, n - Cardinality(group))

RECURSIVE SortDesc(_)
SortDesc(S) ==
  IF S = {} THEN <<>>
  ELSE LET m == Max(S) IN <<m>> \o SortDesc(S \ {m})

(***************************************************************************)
(* services/progress.ts                                                    *)
(***************************************************************************)
\* calculateSeedBalance with the privilege filter narrowed to APPROVED, so
\* that a terminated ticket hands its cost back
calculateSeedBalanceApprovedOnly(db, childId) ==
  LET total(rows, field) == Coalesce(aggregateSum(Column(rows, field)), 0)
  IN Coalesce(aggregateSumOfRows(
          {c \in db.taskCompletion : c.childId = childId}, "seedsEarned"), 0)
     + total(SelectSeq(db.missionReward, LAMBDA r : r.userId = childId), "seedsEarned")
     + total(SelectSeq(db.streakRewardLog, LAMBDA r : r.childId = childId), "seedsEarned")
     + total(SelectSeq(db.pointAdjustment, LAMBDA r : r.childId = childId), "points")
     - total(SelectSeq(db.rewardRedemption, LAMBDA r : r.childId = childId), "seedsSpent")
     - total(SelectSeq(db.privilegeRequest,
               LAMBDA r : r.childId = childId /\ r.status = APPROVED), "cost")

calculateSeedBalance(db, childId) ==
  LET earned == aggregateSumOfRows(
                  {c \in db.taskCompletion : c.childId = childId}, "seedsEarned")
      missionBonus == aggregateSum(Column(SelectSeq(db.missionReward,
                  LAMBDA r : r.userId = childId), "seedsEarned"))
      spent == aggregateSum(Column(SelectSeq(db.rewardRedemption,
                  LAMBDA r : r.childId = childId), "seedsSpent"))
      streakRewards == aggregateSum(Column(SelectSeq(db.streakRewardLog,
                  LAMBDA r : r.childId = childId), "seedsEarned"))
      privilegeSpent == aggregateSum(Column(SelectSeq(db.privilegeRequest,
                  LAMBDA r : r.childId = childId
                             /\ r.status \in {APPROVED, TERMINATED}), "cost"))
      manualAdjustments == aggregateSum(Column(SelectSeq(db.pointAdjustment,
                  LAMBDA r : r.childId = childId), "points"))
      earnedSeeds == Coalesce(earned, 0)
      missionSeeds == Coalesce(missionBonus, 0)
      spentSeeds == Coalesce(spent, 0)
      streakSeeds == Coalesce(streakRewards, 0)
      privilegeCost == Coalesce(privilegeSpent, 0)
      adjustmentSeeds == Coalesce(manualAdjustments, 0)
  IN earnedSeeds + missionSeeds + streakSeeds + adjustmentSeeds
       - spentSeeds - privilegeCost

\* the for-loop of calculateChildStreak over uniqueDays[i..]
RECURSIVE StreakWalk(_, _, _, _, _)
StreakWalk(uniqueDays, i, streak, expectedDay, streakStart) ==
  IF i > Len(uniqueDays)
    THEN [count |-> streak, startDate |-> streakStart]
  ELSE LET day == uniqueDays[i] IN
    IF day = expectedDay
      THEN StreakWalk(uniqueDays, i + 1, streak + 1, expectedDay - DAY_MS, day)
    ELSE IF day = expectedDay - DAY_MS
      THEN StreakWalk(uniqueDays, i + 1, streak + 1, day - DAY_MS, day)
    ELSE IF day > expectedDay
      THEN StreakWalk(uniqueDays, i + 1, streak, expectedDay, streakStart)
    ELSE [count |-> streak, startDate |-> streakStart]

calculateChildStreak(db, childId, timeZone, clock) ==
  LET completions == TakeLatest(
        {c \in db.taskCompletion : c.childId = childId /\ c.status = COMPLETED},
        LOOKBACK)
      uniqueDays == SortDesc(
        {startOfDayInTimeZone(timeZone, c.date) : c \in completions})
      walked == StreakWalk(uniqueDays, 1, 0,
                           startOfDayInTimeZone(timeZone, clock), NULL)
  IN IF walked.count > 0 /\ walked.startDate = NULL
       THEN [walked EXCEPT !.startDate = startOfDayInTimeZone(timeZone, clock)]
       ELSE walked

\* the due-set without the weekday schedule
tasksDueTodayAnyWeekday(taskRows, assignments, childId, timeZone, clock) ==
  {t \in DOMAIN taskRows :
     /\ taskRows[t].active
     /\ \E a \in assignments : a.taskId = t /\ a.childId = childId}

\* tasks due today for the child, and those of them COMPLETED in today's
\* window (shared by maybeAwardDailyReward and maybeRevokeDailyReward)
tasksDueToday(taskRows, assignments, childId, timeZone, clock) ==
  {t \in DOMAIN taskRows :
     /\ taskRows[t].active
     /\ \E a \in assignments : a.taskId = t /\ a.childId = childId
     /\ isActiveToday(taskRows[t].daysOfWeek, timeZone, clock)}

uniqueCompleted(db, due, childId, timeZone, clock) ==
  LET bounds == dayBoundsForTimeZone(timeZone, clock)
  IN {c.taskId : c \in {x \in db.taskCompletion :
        /\ x.childId = childId
        /\ x.taskId \in due
        /\ x.date >= bounds.start /\ x.date < bounds.end
        /\ x.status = COMPLETED}}

\* findFirst({ where: { childId, period }, orderBy: { awardedAt: "desc" } })
lastAwardOf(log, childId, period) ==
  LET rows == {i \in DOMAIN log : log[i].childId = childId /\ log[i].period = period}
  IN IF rows = {} THEN <<>>
     ELSE <<log[CHOOSE i \in rows : \A j \in rows : log[j].awardedAt <= log[i].awardedAt]>>

\* a create that a unique index on (childId, period) would reject
createStreakRewardOncePerPeriod(db, childId, familyId, period, streakValue, seedsEarned, clock) ==
  IF \E i \in DOMAIN db.streakRewardLog :
       db.streakRewardLog[i].childId = childId /\ db.streakRewardLog[i].period = period
    THEN db
    ELSE [db EXCEPT !.streakRewardLog = Append(@,
           [ childId |-> childId, familyId |-> familyId, period |-> period,
             streakValue |-> streakValue, seedsEarned |-> seedsEarned,
             awardedAt |-> clock ])]

createStreakReward(db, childId, familyId, period, streakValue, seedsEarned, clock) ==
  [db EXCEPT !.streakRewardLog = Append(@,
     [ childId |-> childId, familyId |-> familyId, period |-> period,
       streakValue |-> streakValue, seedsEarned |-> seedsEarned,
       awardedAt |-> clock ])]

maybeAwardDailyReward(db, taskRows, assignments, childId, familyId, timeZone, rewardAmount, clock) ==
  IF rewardAmount <= 0 THEN db
  ELSE
    LET start == dayBoundsForTimeZone(timeZone, clock).start
        due == tasksDueToday(taskRows, assignments, childId, timeZone, clock)
        done == uniqueCompleted(db, due, childId, timeZone, clock)
        lastDaily == lastAwardOf(db.streakRewardLog, childId, DAILY)
    IN IF due = {} THEN db
       ELSE IF Cardinality(done) # Cardinality(due) THEN db
       ELSE IF lastDaily # <<>>
               /\ startOfDayInTimeZone(timeZone, lastDaily[1].awardedAt) = start
         THEN db
       ELSE createStreakReward(db, childId, familyId, DAILY,
                               Cardinality(done), rewardAmount, clock)

\* the period loop without its threshold test
RECURSIVE AwardPeriodsAnyCount(_, _, _, _, _, _, _)
AwardPeriodsAnyCount(db, i, fam, info, childId, familyId, clock) ==
  IF i > Len(STREAK_CONFIG) THEN db
  ELSE
    LET config == STREAK_CONFIG[i]
        rewardAmount == fam[config.field]
        lastAward == lastAwardOf(db.streakRewardLog, childId, config.period)
    IN IF rewardAmount <= 0
         THEN AwardPeriodsAnyCount(db, i + 1, fam, info, childId, familyId, clock)
       ELSE IF lastAward # <<>> /\ lastAward[1].awardedAt >= info.startDate
         THEN AwardPeriodsAnyCount(db, i + 1, fam, info, childId, familyId, clock)
       ELSE AwardPeriodsAnyCount(
              createStreakReward(db, childId, familyId, config.period,
                                 info.count, rewardAmount, clock),
              i + 1, fam, info, childId, familyId, clock)

\* the loop of maybeAwardStreakRewards over STREAK_CONFIG[i..]
RECURSIVE AwardPeriods(_, _, _, _, _, _, _)
AwardPeriods(db, i, fam, info, childId, familyId, clock) ==
  IF i > Len(STREAK_CONFIG) THEN db
  ELSE
    LET config == STREAK_CONFIG[i]
        rewardAmount == fam[config.field]
        lastAward == lastAwardOf(db.streakRewardLog, childId, config.period)
    IN IF rewardAmount <= 0
         THEN AwardPeriods(db, i + 1, fam, info, childId, familyId, clock)
       ELSE IF info.count < config.threshold
         THEN AwardPeriods(db, i + 1, fam, info, childId, familyId, clock)
       ELSE IF lastAward # <<>> /\ lastAward[1].awardedAt >= info.startDate
         THEN AwardPeriods(db, i + 1, fam, info, childId, familyId, clock)
       ELSE AwardPeriods(
              createStreakReward(db, childId, familyId, config.period,
                                 info.count, rewardAmount, clock),
              i + 1, fam, info, childId, familyId, clock)

maybeAwardStreakRewards(db, fam, taskRows, assignments, childId, familyId, timeZone, clock) ==
  LET info == calculateChildStreak(db, childId, timeZone, clock)
      afterDaily == maybeAwardDailyReward(db, taskRows, assignments, childId,
                      familyId, timeZone, fam.dailyStreakReward, clock)
  IN IF info.startDate = NULL \/ info.count = 0 THEN afterDaily
     ELSE AwardPeriods(afterDaily, 1, fam, info, childId, familyId, clock)

maybeRevokeDailyReward(db, taskRows, assignments, childId, familyId, timeZone, clock) ==
  LET bounds == dayBoundsForTimeZone(timeZone, clock)
      due == tasksDueToday(taskRows, assignments, childId, timeZone, clock)
      done == uniqueCompleted(db, due, childId, timeZone, clock)
  IN IF due = {} THEN db
     ELSE IF Cardinality(done) = Cardinality(due) THEN db
     ELSE [db EXCEPT !.streakRewardLog = SelectSeq(@, LAMBDA r :
             ~ ( /\ r.childId = childId
                 /\ r.familyId = familyId
                 /\ r.period = DAILY
                 /\ r.awardedAt >= bounds.start
                 /\ r.awardedAt < bounds.end ))]

childProgressSnapshot(db, childId, timeZone, clock) ==
  LET bounds == dayBoundsForTimeZone(timeZone, clock)
      streakInfo == calculateChildStreak(db, childId, timeZone, clock)
      todayCompletions == {c \in db.taskCompletion :
        c.childId = childId /\ c.date >= bounds.start /\ c.date < bounds.end}
  IN [ seedBalance |-> calculateSeedBalance(db, childId),
       streak |-> streakInfo.count,
       completedToday |-> Cardinality({c \in todayCompletions : c.status = COMPLETED}),
       totalLoggedToday |-> Cardinality(todayCompletions) ]

(***************************************************************************)
(* routes/tasks.ts: backfill                                               *)
(***************************************************************************)
\* taskCompletion.upsert keyed by (taskId, childId, date): `update` is a
\* function from field names to new values, {} written as <<>>
upsertCompletion(rows, taskId, childId, date, update, create) ==
  IF \E c \in rows : c.taskId = taskId /\ c.childId = childId /\ c.date = date
    THEN {IF c.taskId = taskId /\ c.childId = childId /\ c.date = date
            THEN [f \in DOMAIN c |-> IF f \in DOMAIN update THEN update[f] ELSE c[f]]
            ELSE c : c \in rows}
    ELSE rows \cup {create}

\* the backfill walk stopping after the first day it fills
RECURSIVE BackfillWalkOneDay(_, _, _, _, _)
BackfillWalkOneDay(rows, assignment, daysOfWeek, cursor, today) ==
  IF ~ (cursor < today) THEN rows
  ELSE IF ~ isActiveOnDay(daysOfWeek, dayKeyFromDate(cursor))
    THEN BackfillWalkOneDay(rows, assignment, daysOfWeek, cursor + DAY_MS, today)
  ELSE upsertCompletion(rows, assignment.taskId, assignment.childId, cursor,
         <<>>,
         [ taskId |-> assignment.taskId, childId |-> assignment.childId,
           date |-> cursor, status |-> SKIPPED, seedsEarned |-> 0 ])

\* the backfill walk writing the missed days as done
RECURSIVE BackfillWalkAsCompleted(_, _, _, _, _)
BackfillWalkAsCompleted(rows, assignment, daysOfWeek, cursor, today) ==
  IF ~ (cursor < today) THEN rows
  ELSE IF ~ isActiveOnDay(daysOfWeek, dayKeyFromDate(cursor))
    THEN BackfillWalkAsCompleted(rows, assignment, daysOfWeek, cursor + DAY_MS, today)
  ELSE BackfillWalkAsCompleted(
         upsertCompletion(rows, assignment.taskId, assignment.childId, cursor,
           <<>>,
           [ taskId |-> assignment.taskId, childId |-> assignment.childId,
             date |-> cursor, status |-> COMPLETED, seedsEarned |-> 1 ]),
         assignment, daysOfWeek, cursor + DAY_MS, today)

\* the while-loop of backfillMissedCompletions for one assignment
RECURSIVE BackfillWalk(_, _, _, _, _)
BackfillWalk(rows, assignment, daysOfWeek, cursor, today) ==
  IF ~ (cursor < today) THEN rows
  ELSE IF ~ isActiveOnDay(daysOfWeek, dayKeyFromDate(cursor))
    THEN BackfillWalk(rows, assignment, daysOfWeek, cursor + DAY_MS, today)
  ELSE BackfillWalk(
         upsertCompletion(rows, assignment.taskId, assignment.childId, cursor,
           <<>>,
           [ taskId |-> assignment.taskId, childId |-> assignment.childId,
             date |-> cursor, status |-> SKIPPED, seedsEarned |-> 0 ]),
         assignment, daysOfWeek, cursor + DAY_MS, today)

\* findFirst({ where: { childId, taskId }, orderBy: { date: "desc" } })
lastCompletionOf(rows, childId, taskId) ==
  LET mine == {c \in rows : c.childId = childId /\ c.taskId = taskId}
  IN IF mine = {} THEN <<>>
     ELSE <<CHOOSE c \in mine : \A d \in mine : d.date <= c.date>>

backfillAssignment(rows, taskRows, assignment, today) ==
  LET lastCompletion == lastCompletionOf(rows, assignment.childId, assignment.taskId)
      lastDate == IF lastCompletion # <<>>
                    THEN startOfDayUTC(lastCompletion[1].date)
                    ELSE startOfDayUTC(assignment.assignedAt)
  IN BackfillWalk(rows, assignment, taskRows[assignment.taskId].daysOfWeek,
                  lastDate + DAY_MS, today)

\* the for-loop of backfillMissedCompletions over the child's assignments
RECURSIVE BackfillAll(_, _, _, _)
BackfillAll(rows, taskRows, assignments, today) ==
  IF assignments = {} THEN rows
  ELSE LET a == CHOOSE x \in assignments : TRUE
       IN BackfillAll(backfillAssignment(rows, taskRows, a, today),
                      taskRows, assignments \ {a}, today)

\* the backfill walking up to and including today
backfillMissedCompletionsThroughToday(rows, taskRows, assignments, childId, clock) ==
  BackfillAll(rows, taskRows, {a \in assignments : a.childId = childId},
              startOfDayUTC(clock) + DAY_MS)

backfillMissedCompletions(rows, taskRows, assignments, childId, clock) ==
  BackfillAll(rows, taskRows, {a \in assignments : a.childId = childId},
              startOfDayUTC(clock))

\* the while-loop of a run whose upsert number run.left + 1 throws: run is
\* [rows, left, failed], and a failed run writes nothing more
RECURSIVE BackfillWalkFailing(_, _, _, _, _)
BackfillWalkFailing(run, assignment, daysOfWeek, cursor, today) ==
  IF run.failed \/ ~ (cursor < today) THEN run
  ELSE IF ~ isActiveOnDay(daysOfWeek, dayKeyFromDate(cursor))
    THEN BackfillWalkFailing(run, assignment, daysOfWeek, cursor + DAY_MS, today)
  ELSE IF run.left = 0 THEN [run EXCEPT !.failed = TRUE]
  ELSE BackfillWalkFailing(
         [ rows |-> upsertCompletion(run.rows, assignment.taskId,
                      assignment.childId, cursor, <<>>,
                      [ taskId |-> assignment.taskId, childId |-> assignment.childId,
                        date |-> cursor, status |-> SKIPPED, seedsEarned |-> 0 ]),
           left |-> run.left - 1, failed |-> FALSE ],
         assignment, daysOfWeek, cursor + DAY_MS, today)

\* the for-loop of a run that may throw, over the assignments in the order
\* the uninterrupted run takes them
RECURSIVE BackfillAllFailing(_, _, _, _)
BackfillAllFailing(run, taskRows, assignments, today) ==
  IF run.failed \/ assignments = {} THEN run
  ELSE LET a == CHOOSE x \in assignments : TRUE
           lastCompletion == lastCompletionOf(run.rows, a.childId, a.taskId)
           lastDate == IF lastCompletion # <<>>
                         THEN startOfDayUTC(lastCompletion[1].date)
                         ELSE startOfDayUTC(a.assignedAt)
       IN BackfillAllFailing(
            BackfillWalkFailing(run, a, taskRows[a.taskId].daysOfWeek,
                                lastDate + DAY_MS, today),
            taskRows, assignments \ {a}, today)

\* the ledger a backfill leaves when its upsert number upserts + 1 throws
\* (the whole ledger of the run when it makes no more than upserts of them)
backfillMissedCompletionsFailing(rows, taskRows, assignments, childId, clock, upserts) ==
  BackfillAllFailing([rows |-> rows, left |-> upserts, failed |-> FALSE],
    taskRows, {a \in assignments : a.childId = childId},
    startOfDayUTC(clock)).rows

(***************************************************************************)
(* Initial states                                                          *)
(***************************************************************************)
\* the streak reward amounts a family row holds: the schema defaults
DefaultRewards ==
  [ dailyStreakReward |-> 3, weeklyStreakReward |-> 5,
    monthlyStreakReward |-> 15, yearlyStreakReward |-> 100 ]

\* the days (counted back from the day of the run) on which the child
\* completed task t1 before the run starts: never, on each of the last
\* MaxHistory days, or yesterday and three days ago with a day between on
\* which the task was left undone and backfilled as SKIPPED
Histories == { {}, 1 .. MaxHistory, {1, 3} }

Rewards == [r1 |-> 2, r2 |-> 4]
Privileges == [p1 |-> 3]

\* what a handler returns: the database it leaves and the response it sends
Reply(db, code, balance, streak) ==
  [db |-> db, response |-> [code |-> code, balance |-> balance, streak |-> streak]]

\* t1 is due every day; t2 on Wednesdays, Fridays and Saturdays
TaskRows ==
  [t \in Tasks |->
     IF t = "t1" THEN [points |-> 2, daysOfWeek |-> {}, active |-> TRUE]
                 ELSE [points |-> 3, daysOfWeek |-> {"WED", "FRI", "SAT"}, active |-> TRUE]]

\* the users of the family
Users == {Child, Parent}

\* a request field that is absent
Absent == [type |-> "undefined", value |-> 0]

\* POST /missions: the TeamMission row with one TeamParticipant row per
\* entry of participantIds; participants counts the rows of each user
createMission(seedsReward, participantIds) ==
  [ status |-> "ACTIVE",
    participants |->
      [u \in Users |->
         Cardinality({i \in 1 .. Len(participantIds) : participantIds[i] = u})],
    seedsReward |-> IF seedsReward.type = "number" THEN seedsReward.value ELSE 5 ]

\* the requests that can be served at the same time
Calls == {"a", "b"}

\* the locals of a call that is not running
Idle == [pc |-> "idle", info |-> [count |-> 0, startDate |-> NULL], i |-> 0]

NoCalls == [c \in Calls |-> Idle]

\* the locals of a redeem request that is not running, and of none running
NotRedeeming == [pc |-> "idle", rewardId |-> "r1", balance |-> 0]

NoRedeems == [c \in Calls |-> NotRedeeming]

\* t1 was assigned the day before the first completion of the history
\* (yesterday when there is none); since then it was completed through the
\* complete endpoint on the days of the history and backfilled on the days
\* between.  t2 is either unassigned or was assigned four days ago and
\* never touched since
InitLedger(history, t2Assigned) ==
  /\ taskAssignment =
       {[ taskId |-> "t1", childId |-> Child,
          assignedAt |-> (StartDay - 1 - Max(history \cup {0})) * DAY_MS
                           + 12 * HOUR_MS ]}
       \cup (IF t2Assigned
               THEN {[ taskId |-> "t2", childId |-> Child,
                       assignedAt |-> (StartDay - 4) * DAY_MS + 12 * HOUR_MS ]}
               ELSE {})
  /\ taskCompletion = {[ taskId |-> "t1", childId |-> Child,
       date |-> (StartDay - k) * DAY_MS,
       status |-> IF k \in history THEN COMPLETED ELSE SKIPPED,
       seedsEarned |-> IF k \in history THEN TaskRows["t1"].points ELSE 0 ]
         : k \in 1 .. Max(history \cup {0})}

InitRows ==
  /\ family = DefaultRewards
  /\ tasks = TaskRows
  /\ streakRewardLog = <<>>
  /\ rewardRedemption = <<>>
  /\ missionReward = <<>>
  /\ pointAdjustment = <<>>
  /\ privilegeRequest = <<>>
  /\ teamMission = createMission(Absent, <<>>)
  /\ inflight = NoCalls
  /\ redeeming = NoRedeems

Init ==
  /\ now \in RequestTimes
  /\ systemTimeZone \in TimeZones
  /\ \E history \in Histories, t2Assigned \in BOOLEAN :
       InitLedger(history, t2Assigned)
  /\ InitRows

(***************************************************************************)
(* Requests                                                                *)
(***************************************************************************)
config == << systemTimeZone, family, tasks, teamMission >>

\* the clock moves on to a later request time
Tick ==
  /\ \E t \in RequestTimes :
       /\ t > now
       /\ now' = t
  /\ UNCHANGED << inflight, redeeming, config, taskAssignment, ledgers >>

\* POST /tasks/:taskId/complete, by the child or by a parent for the child,
\* for a request that arrives at the instant clock
completeTaskAt(db, taskId, status, clock) ==
  IF ~ \E a \in taskAssignment : a.taskId = taskId /\ a.childId = Child
    THEN Reply(db, 403, 0, 0)
  ELSE
    LET today == startOfDayUTC(clock)
        seedsEarned == IF status = COMPLETED THEN tasks[taskId].points ELSE 0
        upserted == [db EXCEPT !.taskCompletion =
          upsertCompletion(@, taskId, Child, today,
            [status |-> status, seedsEarned |-> seedsEarned],
            [ taskId |-> taskId, childId |-> Child, date |-> today,
              status |-> status, seedsEarned |-> seedsEarned ])]
        reconciled ==
          IF status = COMPLETED
            THEN maybeAwardStreakRewards(upserted, family, tasks,
                   taskAssignment, Child, Family, systemTimeZone, clock)
          ELSE IF status = PENDING
            THEN maybeRevokeDailyReward(upserted, tasks, taskAssignment,
                   Child, Family, systemTimeZone, clock)
          ELSE upserted
        progress == childProgressSnapshot(reconciled, Child, systemTimeZone, clock)
    IN Reply(reconciled, 200, progress.seedBalance, progress.streak)

\* the handler serving a request that arrives now
completeTask(db, taskId, status) == completeTaskAt(db, taskId, status, now)

CompleteTask(taskId, status) ==
  /\ taskCompletion' = completeTask(Db, taskId, status).db.taskCompletion
  /\ streakRewardLog' = completeTask(Db, taskId, status).db.streakRewardLog
  /\ UNCHANGED << now, inflight, redeeming, config, taskAssignment, rewardRedemption, missionReward,
                  pointAdjustment, privilegeRequest >>

\* GET /tasks (and GET /tasks/history): backfill runs before the listing
GetTasks ==
  /\ taskCompletion' = backfillMissedCompletions(taskCompletion, tasks,
                         taskAssignment, Child, now)
  /\ UNCHANGED << now, inflight, redeeming, config, taskAssignment, streakRewardLog,
                  rewardRedemption, missionReward, pointAdjustment,
                  privilegeRequest >>

\* POST /tasks/:taskId/assign
AssignTask(taskId) ==
  /\ taskAssignment' =
       IF \E a \in taskAssignment : a.taskId = taskId /\ a.childId = Child
         THEN taskAssignment
         ELSE taskAssignment \cup
                {[taskId |-> taskId, childId |-> Child, assignedAt |-> now]}
  /\ UNCHANGED << now, inflight, redeeming, config, ledgers >>

\* POST /rewards/:rewardId/redeem
redeemReward(db, rewardId) ==
  LET balance == calculateSeedBalance(db, Child)
      cost == Rewards[rewardId]
  IN IF balance < cost THEN Reply(db, 400, 0, 0)
     ELSE Reply([db EXCEPT !.rewardRedemption = Append(@,
                   [rewardId |-> rewardId, childId |-> Child, seedsSpent |-> cost])],
                200, balance - cost, 0)

RedeemReward(rewardId) ==
  /\ Len(rewardRedemption) < MaxLedger
  /\ rewardRedemption' = redeemReward(Db, rewardId).db.rewardRedemption
  /\ UNCHANGED << now, inflight, redeeming, config, taskAssignment, taskCompletion, streakRewardLog,
                  missionReward, pointAdjustment, privilegeRequest >>

\* POST /points: a parent gifts or deducts seeds
adjustPoints(db, type, amount) ==
  LET normalizedAmount == IF amount < 0 THEN 0 - amount ELSE amount
      points == IF type = "GIFT" THEN normalizedAmount ELSE 0 - normalizedAmount
  IN IF normalizedAmount <= 0 THEN Reply(db, 400, 0, 0)
     ELSE Reply([db EXCEPT !.pointAdjustment = Append(@,
                   [childId |-> Child, familyId |-> Family,
                    points |-> points, type |-> type])],
                201, 0, 0)

AdjustPoints(type, amount) ==
  /\ Len(pointAdjustment) < MaxLedger
  /\ pointAdjustment' = adjustPoints(Db, type, amount).db.pointAdjustment
  /\ UNCHANGED << now, inflight, redeeming, config, taskAssignment, taskCompletion, streakRewardLog,
                  rewardRedemption, missionReward, privilegeRequest >>

\* POST /privileges/:privilegeId/request
requestPrivilege(db, privilegeId) ==
  LET cost == Privileges[privilegeId]
      existing == \E i \in DOMAIN db.privilegeRequest :
                    /\ db.privilegeRequest[i].childId = Child
                    /\ db.privilegeRequest[i].privilegeId = privilegeId
                    /\ db.privilegeRequest[i].status = PENDING
      balance == calculateSeedBalance(db, Child)
  IN IF existing THEN Reply(db, 409, 0, 0)
     ELSE IF balance < cost THEN Reply(db, 400, 0, 0)
     ELSE Reply([db EXCEPT !.privilegeRequest = Append(@,
                   [privilegeId |-> privilegeId, childId |-> Child,
                    familyId |-> Family, cost |-> cost, status |-> PENDING])],
                201, 0, 0)

RequestPrivilege(privilegeId) ==
  /\ Len(privilegeRequest) < MaxLedger
  /\ privilegeRequest' = requestPrivilege(Db, privilegeId).db.privilegeRequest
  /\ UNCHANGED << now, inflight, redeeming, config, taskAssignment, taskCompletion, streakRewardLog,
                  rewardRedemption, missionReward, pointAdjustment >>

\* POST /privileges/requests/:requestId/decision
decideRequest(db, requestId, status) ==
  IF requestId \notin DOMAIN db.privilegeRequest THEN Reply(db, 404, 0, 0)
  ELSE
    LET request == db.privilegeRequest[requestId]
    IN IF request.status # PENDING THEN Reply(db, 400, 0, 0)
       ELSE IF status = APPROVED
               /\ calculateSeedBalance(db, request.childId) < request.cost
         THEN Reply(db, 400, 0, 0)
       ELSE Reply([db EXCEPT !.privilegeRequest[requestId].status = status],
                  200, 0, 0)

DecideRequest(requestId, status) ==
  /\ privilegeRequest' = decideRequest(Db, requestId, status).db.privilegeRequest
  /\ UNCHANGED << now, inflight, redeeming, config, taskAssignment, taskCompletion, streakRewardLog,
                  rewardRedemption, missionReward, pointAdjustment >>

\* POST /privileges/requests/:requestId/terminate
terminateRequest(db, requestId) ==
  IF requestId \notin DOMAIN db.privilegeRequest THEN Reply(db, 404, 0, 0)
  ELSE IF db.privilegeRequest[requestId].status # APPROVED
    THEN Reply(db, 400, 0, 0)
  ELSE Reply([db EXCEPT !.privilegeRequest[requestId].status = TERMINATED],
             200, 0, 0)

TerminateRequest(requestId) ==
  /\ privilegeRequest' = terminateRequest(Db, requestId).db.privilegeRequest
  /\ UNCHANGED << now, inflight, redeeming, config, taskAssignment, taskCompletion, streakRewardLog,
                  rewardRedemption, missionReward, pointAdjustment >>

\* POST /missions/:missionId/join: an existing TeamParticipant row of the
\* user is returned, otherwise one is created; the status is not read
JoinMission(userId) ==
  /\ teamMission' =
       IF teamMission.participants[userId] > 0 THEN teamMission
       ELSE [teamMission EXCEPT !.participants[userId] = 1]
  /\ UNCHANGED << now, inflight, redeeming, systemTimeZone, family, tasks, taskAssignment, ledgers >>

\* the MissionReward rows one completion creates: one per TeamParticipant row
RECURSIVE RewardsFor(_, _)
RewardsFor(mission, users) ==
  IF users = <<>> THEN <<>>
  ELSE [i \in 1 .. mission.participants[Head(users)] |->
          [ userId |-> Head(users), seedsEarned |-> mission.seedsReward ]]
       \o RewardsFor(mission, Tail(users))

\* POST /missions/:missionId/complete
CompleteMission ==
  /\ IF teamMission.status = "COMPLETED"
       THEN UNCHANGED << teamMission, missionReward >>
       ELSE /\ teamMission' = [teamMission EXCEPT !.status = "COMPLETED"]
            /\ missionReward' = missionReward \o
                 RewardsFor(teamMission, SetToSeq(Users))
  /\ UNCHANGED << now, inflight, redeeming, systemTimeZone, family, tasks, taskAssignment,
                  taskCompletion, streakRewardLog, rewardRedemption,
                  pointAdjustment, privilegeRequest >>

Next ==
  \/ Tick
  \/ \E t \in Tasks, st \in CompletionStatus : CompleteTask(t, st)
  \/ GetTasks
  \/ \E t \in Tasks : AssignTask(t)

Spec == Init /\ [][Next]_vars

\* the seed economy at one instant, for a child who starts with no seeds:
\* earning, spending and adjusting
InitEconomy ==
  /\ now = StartDay * DAY_MS
  /\ systemTimeZone = 0
  /\ InitLedger({}, FALSE)
  /\ InitRows

NextEconomy ==
  \/ \E t \in Tasks, st \in CompletionStatus : CompleteTask(t, st)
  \/ \E r \in DOMAIN Rewards : RedeemReward(r)
  \/ \E type \in {"GIFT", "PENALTY"}, amount \in {0, 0 - 2} : AdjustPoints(type, amount)
  \/ \E p \in DOMAIN Privileges : RequestPrivilege(p)
  \/ \E i \in 1 .. MaxLedger, st \in PrivilegeRequestStatus : DecideRequest(i, st)
  \/ \E i \in 1 .. MaxLedger : TerminateRequest(i)
  \/ \E u \in {Child, Parent} : JoinMission(u)
  \/ CompleteMission

SpecEconomy == InitEconomy /\ [][NextEconomy]_vars

\* requests late one evening and at the midnight that follows: two UTC
\* days, and in the zone east of UTC one local day
Evening == StartDay * DAY_MS + 20 * HOUR_MS + 500
NextMidnight == (StartDay + 1) * DAY_MS

InitOvernight ==
  /\ now = Evening
  /\ systemTimeZone \in TimeZones
  /\ \E history \in Histories, t2Assigned \in BOOLEAN :
       InitLedger(history, t2Assigned)
  /\ InitRows

\* the clock moves on to the next midnight
PassMidnight ==
  /\ now < NextMidnight
  /\ now' = NextMidnight
  /\ UNCHANGED << inflight, redeeming, config, taskAssignment, ledgers >>

NextOvernight ==
  \/ PassMidnight
  \/ \E t \in Tasks, st \in CompletionStatus : CompleteTask(t, st)
  \/ GetTasks
  \/ \E t \in Tasks : AssignTask(t)

SpecOvernight == InitOvernight /\ [][NextOvernight]_vars

\* the streak calculator and the reward issuer over larger ledgers: up to
\* MaxPerDay tasks, each completed on every day of the history
StreakTasks == {"t" \o ToString(k) : k \in 1 .. MaxPerDay}

\* the days, counted back from the day of the run (0 is today), on which
\* the child completed tasks: every pattern over the last four days, and the
\* unbroken runs that end today or yesterday
StreakHistories ==
  (SUBSET (0 .. 3)) \cup {lo .. hi : lo \in 0 .. 1, hi \in 4 .. MaxHistory}

\* how many tasks the child completed on each day of the history
PerDayChoices == {1, 10, MaxPerDay}

InitStreak ==
  /\ now \in RequestTimes
  /\ systemTimeZone \in TimeZones
  /\ \E weekly \in {0, DefaultRewards.weeklyStreakReward} :
       family = [DefaultRewards EXCEPT !.weeklyStreakReward = weekly]
  /\ tasks = [t \in StreakTasks |-> [points |-> 1, daysOfWeek |-> {}, active |-> TRUE]]
  /\ taskAssignment =
       {[ taskId |-> t, childId |-> Child,
          assignedAt |-> (StartDay - MaxHistory - 1) * DAY_MS + 12 * HOUR_MS ]
          : t \in StreakTasks}
  /\ \E history \in StreakHistories, perDay \in PerDayChoices :
       /\ perDay * Cardinality(history) <= 2 * MaxPerDay
       /\ taskCompletion =
            {[ taskId |-> "t" \o ToString(j), childId |-> Child,
               date |-> (StartDay - k) * DAY_MS,
               status |-> COMPLETED, seedsEarned |-> 1 ]
               : k \in history, j \in 1 .. perDay}
            \cup
            {[ taskId |-> "t1", childId |-> Child,
               date |-> (StartDay - k) * DAY_MS,
               status |-> SKIPPED, seedsEarned |-> 0 ]
               : k \in (1 .. Max(history \cup {0})) \ history}
  /\ streakRewardLog = <<>>
  /\ rewardRedemption = <<>>
  /\ missionReward = <<>>
  /\ pointAdjustment = <<>>
  /\ privilegeRequest = <<>>
  /\ teamMission = createMission(Absent, <<>>)
  /\ inflight = NoCalls
  /\ redeeming = NoRedeems

\* a reconciliation call: maybeAwardStreakRewards(childId, familyId)
Reconcile ==
  /\ streakRewardLog' =
       maybeAwardStreakRewards(Db, family, tasks, taskAssignment, Child, Family,
                               systemTimeZone, now).streakRewardLog
  /\ UNCHANGED << now, inflight, redeeming, config, taskAssignment, taskCompletion, rewardRedemption,
                  missionReward, pointAdjustment, privilegeRequest >>

NextStreak ==
  \/ Reconcile
  \/ \E st \in CompletionStatus : CompleteTask("t1", st)

SpecStreak == InitStreak /\ [][NextStreak]_vars

(***************************************************************************)
(* Two complete requests served at the same time: every await of           *)
(* maybeAwardStreakRewards is a point where the other request can run      *)
(***************************************************************************)
\* the call moves on to the next entry of STREAK_CONFIG, or returns
NextPeriod(call) ==
  IF call.i + 1 > Len(STREAK_CONFIG) THEN Idle
  ELSE [call EXCEPT !.pc = "find", !.i = call.i + 1]

\* POST /tasks/:taskId/complete with status COMPLETED, up to the upsert
StartComplete(c, taskId) ==
  /\ inflight[c].pc = "idle"
  /\ \E a \in taskAssignment : a.taskId = taskId /\ a.childId = Child
  /\ taskCompletion' =
       upsertCompletion(taskCompletion, taskId, Child, startOfDayUTC(now),
         [status |-> COMPLETED, seedsEarned |-> tasks[taskId].points],
         [ taskId |-> taskId, childId |-> Child, date |-> startOfDayUTC(now),
           status |-> COMPLETED, seedsEarned |-> tasks[taskId].points ])
  /\ inflight' = [inflight EXCEPT ![c].pc = "streak"]
  /\ UNCHANGED << now, redeeming, config, taskAssignment, streakRewardLog,
                  rewardRedemption, missionReward, pointAdjustment,
                  privilegeRequest >>

\* maybeAwardStreakRewards up to its loop: the streak is computed and kept
\* in info, the daily reward is settled
ReadStreak(c) ==
  /\ inflight[c].pc = "streak"
  /\ LET info == calculateChildStreak(Db, Child, systemTimeZone, now)
     IN inflight' = [inflight EXCEPT ![c] =
          IF info.startDate = NULL \/ info.count = 0 THEN Idle
          ELSE [pc |-> "find", info |-> info, i |-> 1]]
  /\ streakRewardLog' =
       maybeAwardDailyReward(Db, tasks, taskAssignment, Child, Family,
         systemTimeZone, family.dailyStreakReward, now).streakRewardLog
  /\ UNCHANGED << now, redeeming, config, taskAssignment, taskCompletion,
                  rewardRedemption, missionReward, pointAdjustment,
                  privilegeRequest >>

\* one turn of the loop up to its guard: the amount and threshold tests,
\* findFirst and the comparison of lastAward.awardedAt with info.startDate
FindLastAward(c) ==
  /\ inflight[c].pc = "find"
  /\ LET call == inflight[c]
         period == STREAK_CONFIG[call.i]
         rewardAmount == family[period.field]
         lastAward == lastAwardOf(streakRewardLog, Child, period.period)
     IN inflight' = [inflight EXCEPT ![c] =
          IF rewardAmount <= 0 THEN NextPeriod(call)
          ELSE IF call.info.count < period.threshold THEN NextPeriod(call)
          ELSE IF lastAward # <<>> /\ lastAward[1].awardedAt >= call.info.startDate
            THEN NextPeriod(call)
          ELSE [call EXCEPT !.pc = "create"]]
  /\ UNCHANGED << now, redeeming, config, taskAssignment, ledgers >>

\* the create that follows a guard that let the call through
CreateAward(c) ==
  /\ inflight[c].pc = "create"
  /\ LET call == inflight[c]
         period == STREAK_CONFIG[call.i]
     IN /\ streakRewardLog' =
             createStreakReward(Db, Child, Family, period.period,
               call.info.count, family[period.field], now).streakRewardLog
        /\ inflight' = [inflight EXCEPT ![c] = NextPeriod(call)]
  /\ UNCHANGED << now, redeeming, config, taskAssignment, taskCompletion,
                  rewardRedemption, missionReward, pointAdjustment,
                  privilegeRequest >>

NextRace ==
  \/ Tick
  \/ \E c \in Calls, t \in Tasks : StartComplete(c, t)
  \/ \E c \in Calls : ReadStreak(c)
  \/ \E c \in Calls : FindLastAward(c)
  \/ \E c \in Calls : CreateAward(c)

SpecRace == Init /\ [][NextRace]_vars

(***************************************************************************)
(* Two redeem requests served at the same time: the handler awaits         *)
(* calculateSeedBalance before it awaits create                            *)
(***************************************************************************)
\* POST /rewards/:rewardId/redeem up to its balance test: the request is
\* answered 400 when the balance read is below the cost
ReadBalance(c, rewardId) ==
  /\ redeeming[c].pc = "idle"
  /\ Len(rewardRedemption)
       + Cardinality({d \in Calls : redeeming[d].pc = "create"}) < MaxLedger
  /\ LET balance == calculateSeedBalance(Db, Child)
     IN redeeming' = [redeeming EXCEPT ![c] =
          IF balance < Rewards[rewardId] THEN NotRedeeming
          ELSE [pc |-> "create", rewardId |-> rewardId, balance |-> balance]]
  /\ UNCHANGED << now, inflight, config, taskAssignment, ledgers >>

\* the create that follows a balance test that let the request through
CreateRedemption(c) ==
  /\ redeeming[c].pc = "create"
  /\ rewardRedemption' = Append(rewardRedemption,
       [ rewardId |-> redeeming[c].rewardId, childId |-> Child,
         seedsSpent |-> Rewards[redeeming[c].rewardId] ])
  /\ redeeming' = [redeeming EXCEPT ![c] = NotRedeeming]
  /\ UNCHANGED << now, inflight, config, taskAssignment, taskCompletion,
                  streakRewardLog, missionReward, pointAdjustment,
                  privilegeRequest >>

\* the child earns (tasks completed, gifts of a parent) and redeems
NextRedeem ==
  \/ \E t \in Tasks : CompleteTask(t, COMPLETED)
  \/ AdjustPoints("GIFT", 2)
  \/ \E c \in Calls, r \in DOMAIN Rewards : ReadBalance(c, r)
  \/ \E c \in Calls : CreateRedemption(c)

SpecRedeem == InitEconomy /\ [][NextRedeem]_vars

(***************************************************************************)
(* routes/auth.ts: the family's streak settings                            *)
(***************************************************************************)
RewardFields ==
  {"dailyStreakReward", "weeklyStreakReward", "monthlyStreakReward",
   "yearlyStreakReward"}

\* what a field of the request body can hold: nothing, a text, a number
BodyValues ==
  {[type |-> "undefined", value |-> 0], [type |-> "string", value |-> 7],
   [type |-> "number", value |-> 0 - 3], [type |-> "number", value |-> 4]}

\* request bodies that carry at most MaxFields of the four fields
Bodies ==
  {body \in [RewardFields -> BodyValues] :
     Cardinality({f \in RewardFields : body[f].type # "undefined"}) <= MaxFields}

\* PATCH /family/streaks without Math.max
patchFamilyStreaksUnclamped(fam, body) ==
  LET data == {f \in RewardFields : body[f].type = "number"}
  IN IF data = {} THEN [family |-> fam, code |-> 400]
     ELSE [family |-> [f \in RewardFields |->
                         IF f \in data THEN body[f].value ELSE fam[f]],
           code |-> 200]

\* PATCH /family/streaks, by a parent of a family
patchFamilyStreaks(fam, body) ==
  LET data == {f \in RewardFields : body[f].type = "number"}
  IN IF data = {} THEN [family |-> fam, code |-> 400]
     ELSE [family |-> [f \in RewardFields |->
                         IF f \in data THEN Max({0, body[f].value}) ELSE fam[f]],
           code |-> 200]

PatchStreaks(body) ==
  /\ family' = patchFamilyStreaks(family, body).family
  /\ UNCHANGED << now, inflight, redeeming, systemTimeZone, tasks, teamMission,
                  taskAssignment, ledgers >>

\* the family of a child with a full week behind it changes its settings
\* between the child's complete requests
InitSettings ==
  /\ now \in RequestTimes
  /\ systemTimeZone \in TimeZones
  /\ InitLedger(1 .. MaxHistory, FALSE)
  /\ InitRows

NextSettings ==
  \/ \E body \in Bodies : PatchStreaks(body)
  \/ \E st \in CompletionStatus : CompleteTask("t1", st)

SpecSettings == InitSettings /\ [][NextSettings]_vars

(***************************************************************************)
(* routes/tasks.ts: a parent switches a task off and on                    *)
(***************************************************************************)
\* PATCH /tasks/:taskId with a body that holds only the field active
UpdateTask(taskId, active) ==
  /\ taskId \in DOMAIN tasks
  /\ tasks' = [tasks EXCEPT ![taskId].active = active]
  /\ UNCHANGED << now, inflight, redeeming, systemTimeZone, family, teamMission,
                  taskAssignment, ledgers >>

\* both tasks are assigned; t1 was done yesterday and three days ago
InitDue ==
  /\ now \in RequestTimes
  /\ systemTimeZone \in TimeZones
  /\ InitLedger({1, 3}, TRUE)
  /\ InitRows

NextDue ==
  \/ \E t \in Tasks, active \in BOOLEAN : UpdateTask(t, active)
  \/ \E t \in Tasks, st \in CompletionStatus : CompleteTask(t, st)
  \/ GetTasks

SpecDue == InitDue /\ [][NextDue]_vars

(***************************************************************************)
(* Vocabulary of the properties                                            *)
(***************************************************************************)
\* number of the local calendar day that contains instant t
LocalDay(t) == (t + systemTimeZone) \div DAY_MS

\* the instant of local midnight that opens local day d
LocalMidnight(d) == d * DAY_MS - systemTimeZone

WeekdayOfDay(d) == WEEK_DAYS[((d + EPOCH_WEEKDAY) % 7) + 1]

\* local days holding at least one COMPLETED record of the child
CompletedDays(rows) ==
  {LocalDay(c.date) : c \in {x \in rows : x.childId = Child /\ x.status = COMPLETED}}

\* length of the run of consecutive days of `days` that ends on day d
RECURSIVE RunLength(_, _)
RunLength(days, d) == IF d \in days THEN 1 + RunLength(days, d - 1) ELSE 0

\* the streak as the glossary defines it: the run that ends today, or
\* yesterday while today has no COMPLETED record yet
RunEnd(rows) ==
  IF LocalDay(now) \in CompletedDays(rows) THEN LocalDay(now) ELSE LocalDay(now) - 1

StreakOf(rows) == RunLength(CompletedDays(rows), RunEnd(rows))

\* tasks due for the child on local day d
DueOn(d) ==
  {t \in Tasks :
     /\ \E a \in taskAssignment : a.taskId = t /\ a.childId = Child
     /\ (tasks[t].daysOfWeek = {} \/ WeekdayOfDay(d) \in tasks[t].daysOfWeek)}

\* task t has a COMPLETED record on local day d
CompletedOn(rows, t, d) ==
  \E c \in rows : /\ c.taskId = t /\ c.childId = Child
                  /\ c.status = COMPLETED /\ LocalDay(c.date) = d

\* reward-log entries of a period awarded to the child on local day d
EntriesOn(log, period, d) ==
  {i \in DOMAIN log : /\ log[i].childId = Child /\ log[i].period = period
                      /\ LocalDay(log[i].awardedAt) = d}

\* the complete endpoint was called with status COMPLETED at some instant of
\* the current UTC day: it stamps its record with that day's UTC midnight
CompletedThisUtcDay(rows) ==
  \E c \in rows : /\ c.childId = Child /\ c.status = COMPLETED
                  /\ c.date = startOfDayUTC(now)

(***************************************************************************)
(* Properties                                                              *)
(***************************************************************************)
\* C1: calculateChildStreak returns the number of consecutive local calendar
\* days, each holding at least one COMPLETED record, in the run that ends
\* today (or yesterday when today has none); a day without a COMPLETED
\* record ends the run.
C1_StreakCountsTheRun ==
  calculateChildStreak(Db, Child, systemTimeZone, now).count = StreakOf(taskCompletion)

\* C2: while the child's streak is at least 7 days and weeklyStreakReward is
\* positive, once the child has completed a task during the run (so that
\* maybeAwardStreakRewards has been called), exactly one WEEKLY entry exists
\* that was awarded since the run began.
C2_OneWeeklyPerRun ==
  ( /\ StreakOf(taskCompletion) >= 7
    /\ family.weeklyStreakReward > 0
    /\ CompletedThisUtcDay(taskCompletion) )
  => Cardinality({i \in DOMAIN streakRewardLog :
        /\ streakRewardLog[i].childId = Child
        /\ streakRewardLog[i].period = WEEKLY
        /\ streakRewardLog[i].awardedAt >=
             LocalMidnight(RunEnd(taskCompletion) - StreakOf(taskCompletion) + 1)}) = 1

\* C3: at most one DAILY entry of the child has its awardedAt in any one
\* local day.
C3_OneDailyPerDay ==
  \A i, j \in DOMAIN streakRewardLog :
    ( /\ streakRewardLog[i].period = DAILY /\ streakRewardLog[j].period = DAILY
      /\ streakRewardLog[i].childId = streakRewardLog[j].childId
      /\ LocalDay(streakRewardLog[i].awardedAt) = LocalDay(streakRewardLog[j].awardedAt) )
    => i = j

\* the step is a complete request that turns task t's record of the
\* current UTC day from not COMPLETED (or absent) into COMPLETED
MarksCompleted(t) ==
  /\ now' = now
  /\ ~ \E c \in taskCompletion :
         c.taskId = t /\ c.date = startOfDayUTC(now) /\ c.status = COMPLETED
  /\ \E c \in taskCompletion' :
         c.taskId = t /\ c.date = startOfDayUTC(now) /\ c.status = COMPLETED

\* the step is a complete request that sets task t's record of the current
\* UTC day to the given status, which it did not have before
SetsStatus(t, status) ==
  /\ now' = now
  /\ ~ \E c \in taskCompletion :
         c.taskId = t /\ c.date = startOfDayUTC(now) /\ c.status = status
  /\ \E c \in taskCompletion' :
         c.taskId = t /\ c.date = startOfDayUTC(now) /\ c.status = status

AllDueCompleted(rows) ==
  \A u \in DueOn(LocalDay(now)) : CompletedOn(rows, u, LocalDay(now))

\* C4: when a complete request marks the last outstanding due task of today
\* COMPLETED (due-set non-empty, dailyStreakReward > 0, no DAILY entry yet
\* today), a DAILY entry with seedsEarned = dailyStreakReward and
\* streakValue = size of the due-set exists when the request finishes; and
\* no DAILY entry is created while some task due today is not COMPLETED
\* today, or the due-set is empty, or dailyStreakReward <= 0.
C4_DailyAwardedWhenAllDone ==
  [][ \A t \in Tasks : MarksCompleted(t) =>
        LET today == LocalDay(now)
            due == DueOn(today)
        IN /\ ( /\ t \in due
                /\ AllDueCompleted(taskCompletion')
                /\ family.dailyStreakReward > 0
                /\ EntriesOn(streakRewardLog, DAILY, today) = {} )
              => \E i \in EntriesOn(streakRewardLog', DAILY, today) :
                   /\ streakRewardLog'[i].seedsEarned = family.dailyStreakReward
                   /\ streakRewardLog'[i].streakValue = Cardinality(due)
           /\ ( \/ ~ AllDueCompleted(taskCompletion')
                \/ due = {}
                \/ family.dailyStreakReward <= 0 )
              => Cardinality(EntriesOn(streakRewardLog', DAILY, today))
                   <= Cardinality(EntriesOn(streakRewardLog, DAILY, today))
    ]_vars

\* C5: with dailyStreakReward > 0, completing the last outstanding due task
\* of today creates a DAILY entry for today; reverting it to PENDING then
\* leaves no DAILY entry for today; re-completing it leaves exactly one.
C5_DailyRoundTrip ==
  \A t \in DueOn(LocalDay(now)) :
    LET today == LocalDay(now)
        completed == completeTask(Db, t, COMPLETED).db
        reverted == completeTask(completed, t, PENDING).db
        again == completeTask(reverted, t, COMPLETED).db
    IN ( /\ family.dailyStreakReward > 0
         /\ ~ CompletedOn(taskCompletion, t, today)
         /\ \A u \in DueOn(today) \ {t} : CompletedOn(taskCompletion, u, today)
         /\ EntriesOn(streakRewardLog, DAILY, today) = {} )
       => /\ EntriesOn(completed.streakRewardLog, DAILY, today) # {}
          /\ EntriesOn(reverted.streakRewardLog, DAILY, today) = {}
          /\ Cardinality(EntriesOn(again.streakRewardLog, DAILY, today)) = 1

\* C6: after a complete request that sets a completion to PENDING or to
\* SKIPPED, if not every task due today is COMPLETED today then no DAILY
\* entry awarded today exists for the child.
C6_DailyRevokedOnRegress ==
  [][ \A t \in Tasks :
        (SetsStatus(t, PENDING) \/ SetsStatus(t, SKIPPED)) =>
          ( ~ AllDueCompleted(taskCompletion')
            => EntriesOn(streakRewardLog', DAILY, LocalDay(now)) = {} )
    ]_vars

\* the six ledger totals of the child, each summed row by row
RECURSIVE RowTotal(_, _)
RowTotal(rows, field) ==
  IF Len(rows) = 0 THEN 0
  ELSE rows[Len(rows)][field] + RowTotal(SubSeq(rows, 1, Len(rows) - 1), field)

RECURSIVE SeedsOfCompletions(_)
SeedsOfCompletions(rows) ==
  IF rows = {} THEN 0
  ELSE LET c == CHOOSE x \in rows : TRUE
       IN c.seedsEarned + SeedsOfCompletions(rows \ {c})

LedgerBalance(db) ==
  SeedsOfCompletions({c \in db.taskCompletion : c.childId = Child})
  + RowTotal(SelectSeq(db.missionReward, LAMBDA r : r.userId = Child), "seedsEarned")
  + RowTotal(SelectSeq(db.streakRewardLog, LAMBDA r : r.childId = Child), "seedsEarned")
  + RowTotal(SelectSeq(db.pointAdjustment, LAMBDA r : r.childId = Child), "points")
  - RowTotal(SelectSeq(db.rewardRedemption, LAMBDA r : r.childId = Child), "seedsSpent")
  - RowTotal(SelectSeq(db.privilegeRequest, LAMBDA r :
               r.childId = Child /\ (r.status = APPROVED \/ r.status = TERMINATED)),
             "cost")

\* C7: calculateSeedBalance(child) equals completions + mission rewards +
\* streak rewards + point adjustments - redemptions - cost of the privilege
\* requests that are APPROVED or TERMINATED, an empty ledger counting as 0
\* and requests in any other status contributing nothing.
C7_BalanceIsLedgerSum ==
  calculateSeedBalance(Db, Child) = LedgerBalance(Db)

\* every ledger holds a row of the child and a ticket has been terminated
C7_AllLedgersFilled ==
  /\ \E c \in taskCompletion : c.childId = Child /\ c.seedsEarned > 0
  /\ \E i \in DOMAIN missionReward : missionReward[i].userId = Child
  /\ \E i \in DOMAIN streakRewardLog : streakRewardLog[i].childId = Child
  /\ \E i \in DOMAIN pointAdjustment : pointAdjustment[i].childId = Child
  /\ \E i \in DOMAIN rewardRedemption : rewardRedemption[i].childId = Child
  /\ \E i \in DOMAIN privilegeRequest :
       privilegeRequest[i].childId = Child /\ privilegeRequest[i].status = TERMINATED

\* C8: marking a not-yet-completed task COMPLETED raises the balance by
\* task.points plus the seedsEarned of the streak rewards issued in that
\* request; with dailyStreakReward = 3 and that task the only one due today
\* exactly one DAILY entry with seedsEarned 3 exists afterwards; a successful
\* redeem of cost C lowers the balance by C and returns the balance that
\* calculateSeedBalance gives afterwards.
C8_BalanceDeltas ==
  /\ \A t \in Tasks :
       LET today == LocalDay(now)
           after == completeTask(Db, t, COMPLETED).db
           issued == RowTotal(after.streakRewardLog, "seedsEarned")
                       - RowTotal(streakRewardLog, "seedsEarned")
       IN ( /\ \E a \in taskAssignment : a.taskId = t
            /\ ~ \E c \in taskCompletion :
                   c.taskId = t /\ c.date = startOfDayUTC(now) /\ c.status = COMPLETED )
          => /\ calculateSeedBalance(after, Child)
                  = calculateSeedBalance(Db, Child) + tasks[t].points + issued
             /\ ( /\ family.dailyStreakReward = 3
                  /\ DueOn(today) = {t}
                  /\ EntriesOn(streakRewardLog, DAILY, today) = {} )
                => /\ Cardinality(EntriesOn(after.streakRewardLog, DAILY, today)) = 1
                   /\ \A i \in EntriesOn(after.streakRewardLog, DAILY, today) :
                        after.streakRewardLog[i].seedsEarned = 3
  /\ \A r \in DOMAIN Rewards :
       LET reply == redeemReward(Db, r)
       IN reply.response.code = 200
          => /\ calculateSeedBalance(reply.db, Child)
                  = calculateSeedBalance(Db, Child) - Rewards[r]
             /\ reply.response.balance = calculateSeedBalance(reply.db, Child)

\* C9: once backfillMissedCompletions has returned, every assigned task has
\* a completion record for every day, from the day after its assignment up
\* to yesterday, on which the task was due.
C9_NoSilentGaps ==
  LET after == backfillMissedCompletions(taskCompletion, tasks, taskAssignment,
                                         Child, now)
  IN \A a \in taskAssignment :
       \A d \in (a.assignedAt \div DAY_MS) + 1 .. (now \div DAY_MS) - 1 :
         (tasks[a.taskId].daysOfWeek = {} \/ WeekdayOfDay(d) \in tasks[a.taskId].daysOfWeek)
         => \E c \in after : /\ c.taskId = a.taskId /\ c.childId = a.childId
                             /\ c.date = d * DAY_MS

\* C10: calling backfillMissedCompletions twice in a row for the same child
\* on the same day leaves exactly the completion records, with the same
\* statuses and seedsEarned, that calling it once leaves.
C10_BackfillIdempotent ==
  LET once == backfillMissedCompletions(taskCompletion, tasks, taskAssignment,
                                        Child, now)
  IN backfillMissedCompletions(once, tasks, taskAssignment, Child, now) = once

\* a backfill has filled two past days of t2 with SKIPPED records
C10_BackfillHasFilled ==
  Cardinality({c \in taskCompletion :
     /\ c.taskId = "t2" /\ c.status = SKIPPED /\ c.seedsEarned = 0
     /\ c.date < startOfDayUTC(now)}) >= 2

\* the periods of the entries of a log, DAILY left out, in insertion order
PeriodEntries(log) == SelectSeq(log, LAMBDA r : r.period # DAILY)

\* the periods of STREAK_CONFIG, from position i on, whose threshold a run
\* of the given length has reached, in the order of STREAK_CONFIG
RECURSIVE PeriodsReached(_, _)
PeriodsReached(run, i) ==
  IF i > Len(STREAK_CONFIG) THEN <<>>
  ELSE (IF run >= STREAK_CONFIG[i].threshold THEN <<STREAK_CONFIG[i].period>> ELSE <<>>)
         \o PeriodsReached(run, i + 1)

\* C11: the period rewards are independent and can all fire in one call:
\* for a child with a COMPLETED record on each of the last N consecutive
\* days, all period amounts > 0 and no prior reward-log entries, a single
\* maybeAwardStreakRewards call creates one entry for each period whose
\* threshold N has reached, in the order WEEKLY, MONTHLY, YEARLY (all three
\* for N = 400).
C11_PeriodsFireTogether ==
  LET run == StreakOf(taskCompletion)
      after == maybeAwardStreakRewards(Db, family, tasks, taskAssignment, Child,
                                       Family, systemTimeZone, now)
  IN ( /\ LocalDay(now) \in CompletedDays(taskCompletion)
       /\ streakRewardLog = <<>>
       /\ \A i \in DOMAIN STREAK_CONFIG : family[STREAK_CONFIG[i].field] > 0 )
     => Column(PeriodEntries(after.streakRewardLog), "period") = PeriodsReached(run, 1)

\* what calculateChildStreak can return at most: one day per record read
CountWithinLookback ==
  calculateChildStreak(Db, Child, systemTimeZone, now).count <= LOOKBACK

\* C12: a WEEKLY/MONTHLY/YEARLY entry is created only when the computed
\* streak count is >= 7/31/365 and the family's amount for the period is
\* > 0, and it carries streakValue = the computed count and seedsEarned =
\* the amount; when the count is 7 with weeklyStreakReward = 5 and no WEEKLY
\* entry yet, exactly one WEEKLY entry, with seedsEarned 5 and streakValue 7,
\* exists afterwards; no period entry is created when count = 0 or
\* startDate is null.
C12_PeriodEntryOnlyAtThreshold ==
  LET info == calculateChildStreak(Db, Child, systemTimeZone, now)
      after == maybeAwardStreakRewards(Db, family, tasks, taskAssignment, Child,
                 Family, systemTimeZone, now).streakRewardLog
      weekly(log) == {i \in DOMAIN log : log[i].period = WEEKLY}
  IN /\ Len(after) >= Len(streakRewardLog)
     /\ SubSeq(after, 1, Len(streakRewardLog)) = streakRewardLog
     /\ \A i \in Len(streakRewardLog) + 1 .. Len(after) :
          after[i].period # DAILY =>
            /\ info.count # 0 /\ info.startDate # NULL
            /\ \E k \in DOMAIN STREAK_CONFIG :
                 /\ STREAK_CONFIG[k].period = after[i].period
                 /\ info.count >= STREAK_CONFIG[k].threshold
                 /\ family[STREAK_CONFIG[k].field] > 0
                 /\ after[i].seedsEarned = family[STREAK_CONFIG[k].field]
                 /\ after[i].streakValue = info.count
     /\ ( /\ info.count = 7 /\ family.weeklyStreakReward = 5
          /\ weekly(streakRewardLog) = {} )
        => /\ Cardinality(weekly(after)) = 1
           /\ \A i \in weekly(after) :
                after[i].seedsEarned = 5 /\ after[i].streakValue = 7

\* a reconciliation at count 7 has left a WEEKLY entry of 5 seeds
C12_WeeklyAwardedAtSeven ==
  /\ calculateChildStreak(Db, Child, systemTimeZone, now).count = 7
  /\ \E i \in DOMAIN streakRewardLog :
       /\ streakRewardLog[i].period = WEEKLY
       /\ streakRewardLog[i].streakValue = 7
       /\ streakRewardLog[i].seedsEarned = 5

\* C13: calculateChildStreak returns count = 0 exactly when startDate is
\* null; when count > 0, startDate is the local midnight of the earliest day
\* counted: today minus (count - 1) days when today has a COMPLETED record,
\* yesterday minus (count - 1) days otherwise.
C13_StartDateOfTheRun ==
  LET info == calculateChildStreak(Db, Child, systemTimeZone, now)
      today == LocalDay(now)
      last == IF today \in CompletedDays(taskCompletion) THEN today ELSE today - 1
  IN /\ (info.count = 0) <=> (info.startDate = NULL)
     /\ info.count > 0 => info.startDate = LocalMidnight(last - (info.count - 1))

\* a ledger with the same distinct COMPLETED days: one COMPLETED record for
\* each of them and no other record
OnePerCompletedDay(rows) ==
  {CHOOSE c \in rows : c.childId = Child /\ c.status = COMPLETED /\ c.date = d
     : d \in {x.date : x \in {y \in rows : y.childId = Child /\ y.status = COMPLETED}}}

\* C14: for a fixed 'now', two ledgers whose sets of distinct COMPLETED days
\* are equal give the same {count, startDate} from calculateChildStreak,
\* whatever the number of COMPLETED records per day and whatever PENDING or
\* SKIPPED records exist.
C14_StreakDeterminedByDays ==
  calculateChildStreak(Db, Child, systemTimeZone, now)
    = calculateChildStreak(
        [Db EXCEPT !.taskCompletion = OnePerCompletedDay(taskCompletion)],
        Child, systemTimeZone, now)

\* C15: for every fixed-offset zone and every instant t,
\* startOfDayInTimeZone(tz, t) is the local midnight of the local calendar
\* day containing t: start <= t < start + 24h, two instants of the same
\* local day give the same result, applying the function to its own result
\* returns it unchanged, and dayBoundsForTimeZone returns that start with
\* end = start + 24h.
C15_StartOfDayIsLocalMidnight ==
  LET start == startOfDayInTimeZone(systemTimeZone, now)
      bounds == dayBoundsForTimeZone(systemTimeZone, now)
  IN /\ start = LocalMidnight(LocalDay(now))
     /\ start <= now /\ now < start + DAY_MS
     /\ \A u \in RequestTimes :
          LocalDay(u) = LocalDay(now)
            => startOfDayInTimeZone(systemTimeZone, u) = start
     /\ startOfDayInTimeZone(systemTimeZone, start) = start
     /\ bounds.start = start /\ bounds.end = start + DAY_MS

\* the statuses in which a privilege request's cost counts against the
\* child's balance
BalanceAffecting == {APPROVED, TERMINATED}

\* C16: no request creates a RewardRedemption, and no request moves a
\* privilege request into a balance-affecting status (APPROVED or
\* TERMINATED), while calculateSeedBalance(child) is less than the cost; a
\* request rejected for insufficient seeds returns an error and leaves every
\* ledger unchanged.
C16_NoSpendBeyondBalance ==
  /\ [][ /\ Len(rewardRedemption') > Len(rewardRedemption)
            => calculateSeedBalance(Db, Child)
                 >= rewardRedemption'[Len(rewardRedemption')].seedsSpent
         /\ \A i \in DOMAIN privilegeRequest :
              ( /\ i \in DOMAIN privilegeRequest'
                /\ privilegeRequest[i].status \notin BalanceAffecting
                /\ privilegeRequest'[i].status \in BalanceAffecting )
              => calculateSeedBalance(Db, privilegeRequest[i].childId)
                   >= privilegeRequest[i].cost
       ]_vars
  /\ [] ( /\ \A r \in DOMAIN Rewards :
               calculateSeedBalance(Db, Child) < Rewards[r]
                 => /\ redeemReward(Db, r).response.code = 400
                    /\ redeemReward(Db, r).db = Db
          /\ \A i \in DOMAIN privilegeRequest :
               ( /\ privilegeRequest[i].status = PENDING
                 /\ calculateSeedBalance(Db, Child) < privilegeRequest[i].cost )
               => /\ decideRequest(Db, i, APPROVED).response.code = 400
                  /\ decideRequest(Db, i, APPROVED).db = Db
          /\ \A p \in DOMAIN Privileges :
               calculateSeedBalance(Db, Child) < Privileges[p]
                 => requestPrivilege(Db, p).db = Db )

\* C17: maybeRevokeDailyReward never deletes or changes a WEEKLY, MONTHLY
\* or YEARLY entry, a DAILY entry awarded on another day, or an entry of
\* another child or family; it changes nothing at all when every task due
\* today is COMPLETED today.
C17_RevokeTouchesOnlyTodaysDaily ==
  LET after == maybeRevokeDailyReward(Db, tasks, taskAssignment, Child, Family,
                                      systemTimeZone, now).streakRewardLog
      outOfReach(r) == \/ r.period # DAILY
                       \/ LocalDay(r.awardedAt) # LocalDay(now)
                       \/ r.childId # Child
                       \/ r.familyId # Family
  IN /\ SelectSeq(after, outOfReach) = SelectSeq(streakRewardLog, outOfReach)
     /\ AllDueCompleted(taskCompletion) => after = streakRewardLog


\* the key of the unique index on completion records
CompletionKey(c) == << c.taskId, c.childId, c.date >>

\* the keys of the records that differ between two states of the table:
\* records created or changed on the way from 'before' to 'after'
MutatedKeys(before, after) == {CompletionKey(c) : c \in after \ before}

\* the instants at which the overnight requests arrive
OvernightTimes == {Evening, NextMidnight}

\* C18: completion records are unique per (taskId, childId, date) in every
\* state, and two complete calls for one task and child made at two instants
\* of one day of the family create or change one record only, so that the
\* task's points enter the balance at most once in that day.
C18_OneRecordPerDay ==
  /\ \A c1, c2 \in taskCompletion :
       CompletionKey(c1) = CompletionKey(c2) => c1 = c2
  /\ \A later \in {u \in OvernightTimes : u > now /\ LocalDay(u) = LocalDay(now)} :
       \A t \in Tasks, st1, st2 \in CompletionStatus :
         LET first == completeTaskAt(Db, t, st1, now).db
             second == completeTaskAt(first, t, st2, later).db
             mine(rows) == {c \in rows : c.taskId = t /\ c.childId = Child}
         IN /\ Cardinality(MutatedKeys(taskCompletion,
                                       second.taskCompletion)) <= 1
            /\ SeedsOfCompletions(mine(second.taskCompletion))
                 - SeedsOfCompletions(mine(taskCompletion))
                   <= tasks[t].points

\* the UTC day before which the backfill of a task must not write: the day
\* of the task's latest record, or the assignment day when it has none
BackfillFloor(rows, assignment) ==
  LET mine == {c \in rows : c.taskId = assignment.taskId /\ c.childId = assignment.childId}
  IN IF mine = {} THEN assignment.assignedAt \div DAY_MS
     ELSE Max({c.date \div DAY_MS : c \in mine})

\* C19: backfillMissedCompletions only adds records: every record present
\* before the call is present unchanged after it, and every record it adds
\* belongs to an assignment of the child, has status SKIPPED and seedsEarned
\* 0, is dated at the UTC midnight of a day strictly after the task's latest
\* record (or assignment day) and strictly before today, on a weekday the
\* task's schedule marks as due.
C19_BackfillOnlyAddsSkipped ==
  LET after == backfillMissedCompletions(taskCompletion, tasks, taskAssignment,
                                         Child, now)
      today == now \div DAY_MS
  IN /\ taskCompletion \subseteq after
     /\ \A c \in after \ taskCompletion :
          /\ c.status = SKIPPED /\ c.seedsEarned = 0 /\ c.childId = Child
          /\ c.date % DAY_MS = 0
          /\ c.date \div DAY_MS < today
          /\ \E a \in taskAssignment :
               /\ a.taskId = c.taskId /\ a.childId = Child
               /\ c.date \div DAY_MS > BackfillFloor(taskCompletion, a)
          /\ \/ tasks[c.taskId].daysOfWeek = {}
             \/ WeekdayOfDay(c.date \div DAY_MS) \in tasks[c.taskId].daysOfWeek
          /\ ~ \E x \in taskCompletion : CompletionKey(x) = CompletionKey(c)

\* a backfill is about to add a record for t2 on a due day while it passes
\* over a day on which t2 is not due, and the ledger holds a COMPLETED record
\* of t1 that it must keep
C19_BackfillAddsOnDueDaysOnly ==
  LET after == backfillMissedCompletions(taskCompletion, tasks, taskAssignment,
                                         Child, now)
      t2days == {c.date \div DAY_MS : c \in {x \in after : x.taskId = "t2"}}
  IN /\ \E c \in after \ taskCompletion : c.taskId = "t2"
     /\ \E d \in (StartDay - 3) .. (StartDay - 1) :
          /\ d \notin t2days
          /\ WeekdayOfDay(d) \notin tasks["t2"].daysOfWeek
     /\ \E c \in taskCompletion : c.taskId = "t1" /\ c.status = COMPLETED

\* the entries of a log for one period awarded at or after an instant
AwardsSince(log, period, start) ==
  {i \in DOMAIN log : /\ log[i].childId = Child
                      /\ log[i].period = period
                      /\ log[i].awardedAt >= start}

\* C20: the guard of the period rewards is a read followed by a write: when
\* two maybeAwardStreakRewards calls for the child have both passed the guard
\* of one period before either has executed create, nothing stops either
\* create, and after both the log holds two entries of that period awarded
\* at or after the startDate of the streak each call has read.
C20_BothCallsInsert ==
  \A c1, c2 \in Calls :
    ( /\ c1 # c2
      /\ inflight[c1].pc = "create" /\ inflight[c2].pc = "create"
      /\ inflight[c1].i = inflight[c2].i )
    => LET entry == STREAK_CONFIG[inflight[c1].i]
           one == createStreakReward(Db, Child, Family, entry.period,
                    inflight[c1].info.count, family[entry.field], now)
           both == createStreakReward(one, Child, Family, entry.period,
                    inflight[c2].info.count, family[entry.field], now)
       IN /\ Len(both.streakRewardLog) = Len(streakRewardLog) + 2
          /\ Cardinality(AwardsSince(both.streakRewardLog, entry.period,
                                     inflight[c1].info.startDate)) >= 2
          /\ Cardinality(AwardsSince(both.streakRewardLog, entry.period,
                                     inflight[c2].info.startDate)) >= 2

\* both calls have returned and the log holds two WEEKLY entries awarded at
\* or after the startDate of the child's current streak
C20_TwoWeeklyForOneStreak ==
  LET info == calculateChildStreak(Db, Child, systemTimeZone, now)
  IN /\ \A c \in Calls : inflight[c].pc = "idle"
     /\ info.startDate # NULL
     /\ Cardinality(AwardsSince(streakRewardLog, WEEKLY, info.startDate)) = 2


\* C21: reward reconciliation is safe to retry: a second call of
\* maybeAwardStreakRewards for the child later on the same day, after the
\* first has returned and with no completion or configuration change in
\* between, creates no reward-log entry of any period, so the balance it
\* leaves is the balance the first call left.
C21_ReconcileSafeToRetry ==
  \A later \in {u \in RequestTimes : u >= now /\ LocalDay(u) = LocalDay(now)} :
    LET once == maybeAwardStreakRewards(Db, family, tasks, taskAssignment,
                  Child, Family, systemTimeZone, now)
        again == maybeAwardStreakRewards(once, family, tasks, taskAssignment,
                   Child, Family, systemTimeZone, later)
    IN /\ again.streakRewardLog = once.streakRewardLog
       /\ calculateSeedBalance(again, Child) = calculateSeedBalance(once, Child)


\* C22: a backfill that fails after any number of its upserts leaves a
\* ledger from which a second, uninterrupted backfillMissedCompletions on
\* the same day, with no other write in between, produces exactly the ledger
\* an uninterrupted first run would have produced.
C22_PartialBackfillResumes ==
  \A upserts \in 0 .. MaxUpserts :
    LET partial == backfillMissedCompletionsFailing(taskCompletion, tasks,
                     taskAssignment, Child, now, upserts)
    IN backfillMissedCompletions(partial, tasks, taskAssignment, Child, now)
         = backfillMissedCompletions(taskCompletion, tasks, taskAssignment,
                                     Child, now)

\* a backfill that fails at its second upsert has written a record and has
\* left at least one record of the uninterrupted run unwritten
C22_BackfillFailedMidWalk ==
  LET partial == backfillMissedCompletionsFailing(taskCompletion, tasks,
                   taskAssignment, Child, now, 1)
      whole == backfillMissedCompletions(taskCompletion, tasks, taskAssignment,
                                         Child, now)
  IN /\ partial # taskCompletion
     /\ partial # whole
     /\ partial \subseteq whole


\* the entries of a log for one period
EntriesOf(log, period) == SelectSeq(log, LAMBDA r : r.period = period)

\* the amount of the family row that pays a period
AmountOf(fam, period) ==
  IF period = DAILY THEN fam.dailyStreakReward
  ELSE IF period = WEEKLY THEN fam.weeklyStreakReward
  ELSE IF period = MONTHLY THEN fam.monthlyStreakReward
  ELSE fam.yearlyStreakReward

\* C23: after any sequence of PATCH /family/streaks requests each of the
\* four reward amounts of the family is >= 0; a request whose body holds no
\* numeric field is rejected and changes nothing; and while the amount of a
\* period is 0, maybeAwardStreakRewards creates no reward-log entry of that
\* period.
C23_AmountsNonNegativeZeroDisables ==
  /\ \A f \in RewardFields : family[f] >= 0
  /\ \A body \in Bodies :
       LET patched == patchFamilyStreaks(family, body)
       IN /\ \A f \in RewardFields : patched.family[f] >= 0
          /\ (\A f \in RewardFields : body[f].type # "number")
               => patched.code = 400 /\ patched.family = family
  /\ \A period \in {DAILY, WEEKLY, MONTHLY, YEARLY} :
       AmountOf(family, period) = 0 =>
         EntriesOf(maybeAwardStreakRewards(Db, family, tasks, taskAssignment,
                     Child, Family, systemTimeZone, now).streakRewardLog, period)
           = EntriesOf(streakRewardLog, period)

\* a PATCH has set the weekly and the daily amount to 0, the child has
\* completed today's task with a streak that has reached the weekly
\* threshold, and the log holds no entry
C23_WeekReachedWhileDisabled ==
  /\ family.weeklyStreakReward = 0
  /\ family.dailyStreakReward = 0
  /\ calculateChildStreak(Db, Child, systemTimeZone, now).count >= 7
  /\ \E c \in taskCompletion :
       c.taskId = "t1" /\ c.date = startOfDayUTC(now) /\ c.status = COMPLETED
  /\ streakRewardLog = <<>>


\* a task's weekday schedule marks local or UTC day d as due
ScheduledOn(t, d) ==
  tasks[t].daysOfWeek = {} \/ WeekdayOfDay(d) \in tasks[t].daysOfWeek

C25_CompletingNeverLowersStreak ==
  LET before == calculateChildStreak(Db, Child, systemTimeZone, now).count
  IN \A t \in DOMAIN tasks :
       calculateChildStreak(completeTask(Db, t, COMPLETED).db, Child,
                            systemTimeZone, now).count >= before


\* C26: complete-then-undo round trip: for a task not COMPLETED today,
\* marking it COMPLETED and then setting it back to PENDING later on the
\* same day returns the child's seed balance to its value before the
\* completion, whenever the two requests issued no WEEKLY, MONTHLY or
\* YEARLY reward.
C26_CompleteThenUndoRestoresBalance ==
  \A later \in {u \in RequestTimes : /\ u >= now
                                     /\ startOfDayUTC(u) = startOfDayUTC(now)
                                     /\ LocalDay(u) = LocalDay(now)} :
    \A t \in {a.taskId : a \in taskAssignment} :
      LET done == completeTaskAt(Db, t, COMPLETED, now).db
          undone == completeTaskAt(done, t, PENDING, later).db
      IN ( /\ ~ \E c \in taskCompletion :
                  /\ c.taskId = t /\ c.childId = Child
                  /\ c.date = startOfDayUTC(now) /\ c.status = COMPLETED
           /\ PeriodEntries(undone.streakRewardLog) = PeriodEntries(streakRewardLog) )
         => calculateSeedBalance(undone, Child) = calculateSeedBalance(Db, Child)


\* C27: backfillMissedCompletions changes neither the seed balance nor the
\* streak of the child: calculateSeedBalance and calculateChildStreak return
\* the same values immediately before and immediately after a backfill.
C27_BackfillKeepsBalanceAndStreak ==
  LET after == [Db EXCEPT !.taskCompletion =
                  backfillMissedCompletions(taskCompletion, tasks,
                                            taskAssignment, Child, now)]
  IN /\ calculateSeedBalance(after, Child) = calculateSeedBalance(Db, Child)
     /\ calculateChildStreak(after, Child, systemTimeZone, now)
          = calculateChildStreak(Db, Child, systemTimeZone, now)

\* the child has a balance and a streak, and a backfill is about to add
\* a record
C27_BackfillWithBalanceAndStreak ==
  LET added == backfillMissedCompletions(taskCompletion, tasks, taskAssignment,
                                         Child, now) \ taskCompletion
  IN /\ calculateSeedBalance(Db, Child) > 0
     /\ calculateChildStreak(Db, Child, systemTimeZone, now).count > 0
     /\ added # {}


\* C28: for every interleaving of two POST /:rewardId/redeem requests of
\* the child, the seedsSpent of the redemptions that succeed never exceed
\* the balance the child had before them: while the child only earns and
\* redeems, calculateSeedBalance never falls below zero.
C28_RedemptionsNeverOverspend ==
  calculateSeedBalance(Db, Child) >= 0


\* C29: privilege-request lifecycle: a request is created PENDING, and is
\* rejected with 409 while the child has a PENDING request for the same
\* privilege; the decision endpoint acts only on PENDING requests and the
\* terminate endpoint only on APPROVED ones; a request becomes TERMINATED
\* only from APPROVED, never returns to PENDING, and its cost starts to
\* count against the balance only through an approval made while the
\* balance covers the cost.
C29_PrivilegeRequestLifecycle ==
  /\ [][ /\ \A i \in DOMAIN privilegeRequest' :
              i \notin DOMAIN privilegeRequest
                => privilegeRequest'[i].status = PENDING
         /\ \A i \in DOMAIN privilegeRequest :
              LET old == privilegeRequest[i].status
                  new == privilegeRequest'[i].status
              IN /\ i \in DOMAIN privilegeRequest'
                 /\ (new = TERMINATED /\ old # TERMINATED) => old = APPROVED
                 /\ old # PENDING => new # PENDING
                 /\ (old \notin BalanceAffecting /\ new \in BalanceAffecting)
                      => /\ old = PENDING /\ new = APPROVED
                         /\ calculateSeedBalance(Db, Child)
                              >= privilegeRequest[i].cost
       ]_vars
  /\ [] ( /\ \A p \in DOMAIN Privileges :
               (\E i \in DOMAIN privilegeRequest :
                  /\ privilegeRequest[i].childId = Child
                  /\ privilegeRequest[i].privilegeId = p
                  /\ privilegeRequest[i].status = PENDING)
                 => /\ requestPrivilege(Db, p).response.code = 409
                    /\ requestPrivilege(Db, p).db = Db
          /\ \A i \in DOMAIN privilegeRequest :
               /\ privilegeRequest[i].status # PENDING
                    => \A st \in PrivilegeRequestStatus :
                         decideRequest(Db, i, st).db = Db
               /\ privilegeRequest[i].status # APPROVED
                    => terminateRequest(Db, i).db = Db )

\* missions as POST /missions creates them: participantIds is any list of
\* user ids, the reward the posted number or the default
MaxParticipantIds == 2

ParticipantIdLists ==
  UNION {[1 .. n -> Users] : n \in 0 .. MaxParticipantIds}

InitMission ==
  /\ now = StartDay * DAY_MS
  /\ systemTimeZone = 0
  /\ InitLedger({}, FALSE)
  /\ family = DefaultRewards
  /\ tasks = TaskRows
  /\ streakRewardLog = <<>>
  /\ rewardRedemption = <<>>
  /\ missionReward = <<>>
  /\ pointAdjustment = <<>>
  /\ privilegeRequest = <<>>
  /\ \E seedsReward \in {Absent, [type |-> "number", value |-> 3]} :
       \E participantIds \in ParticipantIdLists :
         teamMission = createMission(seedsReward, participantIds)
  /\ inflight = NoCalls
  /\ redeeming = NoRedeems

NextMission ==
  \/ \E u \in Users : JoinMission(u)
  \/ CompleteMission
  \/ \E t \in Tasks, st \in CompletionStatus : CompleteTask(t, st)

SpecMission == InitMission /\ [][NextMission]_vars

\* the MissionReward rows of one user
RewardsOf(u) == {i \in DOMAIN missionReward : missionReward[i].userId = u}

\* C30: a mission pays out once: after any sequence of complete and join
\* requests each user holds at most one MissionReward of the mission and its
\* seedsEarned is the mission's seedsReward; a complete request on a
\* COMPLETED mission creates no reward; and a completion creates a reward
\* for every participant the mission had
C30_MissionPaysOnce ==
  /\ [] ( /\ \A u \in Users : Cardinality(RewardsOf(u)) <= 1
          /\ \A i \in DOMAIN missionReward :
               missionReward[i].seedsEarned = teamMission.seedsReward )
  /\ [][ /\ teamMission.status = "COMPLETED" => missionReward' = missionReward
         /\ (teamMission.status # "COMPLETED" /\ teamMission'.status = "COMPLETED")
              => \A u \in Users :
                   teamMission.participants[u] > 0
                     => \E i \in DOMAIN missionReward' :
                          /\ i \notin DOMAIN missionReward
                          /\ missionReward'[i].userId = u
       ]_vars

=============================================================================
